---- MODULE Spec2Model ----
(***************************************************************************)
(* A model of jargon_tool.py: the DocBook-to-JSON extractor                *)
(* (render_element, render_paragraph, parse_glossentry, xml_to_json) and   *)
(* the query engine (choose_entry, display_entry, show_entry, ensure_json, *)
(* cmd_build, cmd_random, main).                                           *)
(*                                                                         *)
(* Strings are sequences of one-character strings.  An optional value      *)
(* (Python's None or a value) is a sequence of length 0 or 1.              *)
(* An lxml element is a record                                             *)
(*   [tag, attrib, text, tail, children]                                   *)
(* where tag is a sequence of tokens (the token "}" closes a namespace),   *)
(* text and tail are optional strings and children is a sequence of        *)
(* elements in document order.                                             *)
(***************************************************************************)
EXTENDS Integers, Sequences, FiniteSets, TLC

VARIABLES
    \* --- the renderer, applied to one markup subtree
    rnode,      \* the element handed to render_element
    rout,       \* optional: the string render_element returned
    \* --- the entry extractor, applied to one <glossentry>
    gnode,      \* the element handed to parse_glossentry
    gout,       \* optional: what parse_glossentry produced (entry or exception)
    \* --- entry selection, applied to one record set and query
    centries,   \* the list of entries handed to choose_entry
    cterm,      \* the optional query handed to choose_entry
    cout,       \* optional: what choose_entry produced (entry or exception)
    \* --- the command line program over the two files
    xmlFile,    \* optional: the source document (a sequence of <glossentry>)
    jsonFile,   \* optional: the cache artifact (a list of entries)
    pc,         \* "idle", "ensure", "show", "done"
    args,       \* the parsed argparse namespace of the running invocation
    status,     \* how the invocation ended: "running", "ok", "exit1", or an exception
    jsonAtStart,\* the cache artifact as it was when the invocation started
    extractRan, \* whether xml_to_json was called in this invocation
    loaded,     \* whether show_entry loaded the artifact in this invocation
    chosen,     \* optional: the entry choose_entry returned in this invocation
    stderr      \* optional: the message cmd_random printed to stderr

vars == <<rnode, rout, gnode, gout, centries, cterm, cout, xmlFile, jsonFile,
          pc, args, status, jsonAtStart, extractRan, loaded, chosen, stderr>>

renderVars == <<rnode, rout>>
parseVars == <<gnode, gout>>
chooseVars == <<centries, cterm, cout>>
cliVars == <<xmlFile, jsonFile, pc, args, status, jsonAtStart, extractRan,
             loaded, chosen, stderr>>

----------------------------------------------------------------------------
(* Optional values and strings *)

None == <<>>
Some(v) == <<v>>
IsNone(o) == o = <<>>
Get(o) == o[1]

\* Python truthiness of an optional string: neither None nor "".
Truthy(o) == ~IsNone(o) /\ Get(o) # <<>>

Whitespace == {" ", "\n", "\t"}

RECURSIVE Concat(_)
Concat(parts) ==
    IF parts = <<>> THEN <<>> ELSE Head(parts) \o Concat(Tail(parts))

\* sep.join(parts)
RECURSIVE Join(_, _)
Join(sep, parts) ==
    IF parts = <<>> THEN <<>>
    ELSE IF Len(parts) = 1 THEN parts[1]
    ELSE parts[1] \o sep \o Join(sep, Tail(parts))

\* str.split() with no argument: the maximal runs of non-whitespace.
RECURSIVE SplitFrom(_, _, _)
SplitFrom(s, i, word) ==
    IF i > Len(s)
    THEN IF word = <<>> THEN <<>> ELSE <<word>>
    ELSE IF s[i] \in Whitespace
         THEN IF word = <<>> THEN SplitFrom(s, i + 1, <<>>)
              ELSE <<word>> \o SplitFrom(s, i + 1, <<>>)
         ELSE SplitFrom(s, i + 1, Append(word, s[i]))

Split(s) == SplitFrom(s, 1, <<>>)

\* str.strip() with no argument.
RECURSIVE LStrip(_)
LStrip(s) ==
    IF s # <<>> /\ Head(s) \in Whitespace THEN LStrip(Tail(s)) ELSE s

RECURSIVE RStrip(_)
RStrip(s) ==
    IF s # <<>> /\ s[Len(s)] \in Whitespace
    THEN RStrip(SubSeq(s, 1, Len(s) - 1)) ELSE s

Strip(s) == RStrip(LStrip(s))

\* str.lower(), character by character.
UpperToLower == [c \in {"A", "B", "C"} |->
                    CASE c = "A" -> "a" [] c = "B" -> "b" [] c = "C" -> "c"]

LowerChar(c) == IF c \in DOMAIN UpperToLower THEN UpperToLower[c] ELSE c

Lower(s) == [i \in 1..Len(s) |-> LowerChar(s[i])]

\* Python's `a in b` on strings.
IsSubstring(a, b) ==
    \E i \in 0..(Len(b) - Len(a)) : SubSeq(b, i + 1, i + Len(a)) = a

----------------------------------------------------------------------------
(* ANSI styling *)

COLOR_EMPH == <<"\\033[36m">>
COLOR_REF == <<"\\033[35m">>
COLOR_TITLE == <<"\\033[33m">>
COLOR_RESET == <<"\\033[0m">>

_local_tag(tag) ==
    IF \E i \in 1..Len(tag) : tag[i] = "}"
    THEN LET last == CHOOSE i \in 1..Len(tag) :
                        /\ tag[i] = "}"
                        /\ \A j \in (i + 1)..Len(tag) : tag[j] # "}"
         IN SubSeq(tag, last + 1, Len(tag))
    ELSE tag

_style(text, color) ==
    IF text # <<>> THEN color \o text \o COLOR_RESET ELSE text

----------------------------------------------------------------------------
(* lxml elements *)

NoAttrib == [id |-> None, role |-> None]

Elem(tag, attrib, text, tail, children) ==
    [tag |-> tag, attrib |-> attrib, text |-> text, tail |-> tail,
     children |-> children]

\* element.find(name): the first child with that tag, or None.
Find(node, name) ==
    LET hits == SelectSeq(node.children, LAMBDA c : c.tag = name)
    IN IF hits = <<>> THEN None ELSE Some(hits[1])

\* element.findall(name): the children with that tag, in document order.
FindAll(node, name) == SelectSeq(node.children, LAMBDA c : c.tag = name)

----------------------------------------------------------------------------
(* Markup renderer *)

TextPart(node) == IF Truthy(node.text) THEN Get(node.text) ELSE <<>>

\* variant of TailPart: the text after a child is dropped
TailPart_dropped(child) == <<>>

TailPart(child) == IF Truthy(child.tail) THEN Get(child.tail) ELSE <<>>

EmphasisTags == {<<"emphasis">>}
ReferenceTags == {<<"xref">>, <<"ulink">>, <<"link">>, <<"systemitem">>}

RECURSIVE render_element(_), render_children(_)

render_children(children) ==
    IF children = <<>> THEN <<>>
    ELSE render_element(Head(children)) \o TailPart(Head(children))
           \o render_children(Tail(children))

render_element(node) ==
    LET tag == _local_tag(node.tag)
        combined == TextPart(node) \o render_children(node.children)
    IN IF tag \in EmphasisTags THEN _style(combined, COLOR_EMPH)
       ELSE IF tag \in ReferenceTags THEN _style(combined, COLOR_REF)
       ELSE combined

RECURSIVE paragraph_children(_)
paragraph_children(children) ==
    IF children = <<>> THEN <<>>
    ELSE render_element(Head(children))
           \o (IF Truthy(Head(children).tail) THEN Get(Head(children).tail)
               ELSE <<>>)
           \o paragraph_children(Tail(children))

render_paragraph(paragraph) ==
    LET combined == (IF Truthy(paragraph.text) THEN Get(paragraph.text)
                     ELSE <<>>)
                    \o paragraph_children(paragraph.children)
    IN Join(<<" ">>, Split(combined))

----------------------------------------------------------------------------
(* Inputs of the renderer: every subtree of at most MaxNodes elements *)

MaxNodes == 3

InlineTags == {<<"emphasis">>, <<"{ns", "}", "emphasis">>, <<"xref">>, <<"quote">>}
InlineTexts == {None, Some(<<"a">>)}
InlineTails == {None, Some(<<"b">>)}

\* Forests[n]: the sequences of sibling elements holding n elements in all
Forests[n \in 0..MaxNodes] ==
    IF n = 0 THEN {<<>>}
    ELSE UNION {{<<Elem(tag, NoAttrib, text, tail, f)>> \o g :
                    tag \in InlineTags, text \in InlineTexts,
                    tail \in InlineTails, f \in Forests[k - 1],
                    g \in Forests[n - k]} : k \in 1..n}

----------------------------------------------------------------------------
(* Outcomes: a returned value or a raised exception *)

Ok(v) == [exc |-> "none", value |-> Some(v)]
Raise(e) == [exc |-> e, value |-> None]

----------------------------------------------------------------------------
(* Entry extractor *)

\* pronunciation / grammar: the loop over abbrev's emphasis children keeps
\* the value of the last child carrying the role.
RoleText(glossentry, role) ==
    LET abbrev == Find(glossentry, <<"abbrev">>)
    IN IF IsNone(abbrev) THEN None
       ELSE LET emphs == SelectSeq(FindAll(Get(abbrev), <<"emphasis">>),
                                   LAMBDA e : e.attrib.role = Some(role))
            IN IF emphs = <<>> THEN None
               ELSE LET emph == emphs[Len(emphs)]
                    IN IF Truthy(emph.text) THEN Some(Strip(Get(emph.text)))
                       ELSE None

\* the text_parts of one <glossdef>: its paragraphs' non-empty renders
TextParts(glossdef) ==
    LET paras == FindAll(glossdef, <<"para">>)
        rendered == [i \in 1..Len(paras) |-> render_paragraph(paras[i])]
    IN SelectSeq(rendered, LAMBDA r : r # <<>>)

Definition(glossdef) ==
    LET text_parts == TextParts(glossdef)
    IN IF text_parts # <<>> THEN Join(<<"\n">>, text_parts) ELSE <<>>

\* variant of Senses: a group whose definition is empty emits no Sense
Senses_skipEmpty(glossentry) ==
    LET glossdefs == SelectSeq(FindAll(glossentry, <<"glossdef">>),
                               LAMBDA d : Definition(d) # <<>>)
    IN [i \in 1..Len(glossdefs) |->
          [definition |-> Definition(glossdefs[i]),
           pronunciation |-> RoleText(glossentry, "pronunciation"),
           grammar |-> RoleText(glossentry, "grammar")]]

Senses(glossentry) ==
    LET glossdefs == FindAll(glossentry, <<"glossdef">>)
    IN [i \in 1..Len(glossdefs) |->
          [definition |-> Definition(glossdefs[i]),
           pronunciation |-> RoleText(glossentry, "pronunciation"),
           grammar |-> RoleText(glossentry, "grammar")]]

parse_glossentry(glossentry) ==
    LET entry_id == IF IsNone(glossentry.attrib.id) THEN <<>>
                    ELSE Get(glossentry.attrib.id)
        term_el == Find(glossentry, <<"glossterm">>)
    IN IF ~IsNone(term_el) /\ IsNone(Get(term_el).text)
       THEN Raise("AttributeError")     \* None has no strip()
       ELSE Ok([id |-> entry_id,
                term |-> IF ~IsNone(term_el) THEN Strip(Get(Get(term_el).text))
                         ELSE entry_id,
                senses |-> Senses(glossentry)])

----------------------------------------------------------------------------
(* Inputs of the extractor *)

MaxDefs == 2        \* <glossdef> children of one entry
MaxParas == 3       \* <para> elements of one entry, over all its <glossdef>

Para(text, children) == Elem(<<"para">>, NoAttrib, text, None, children)

ParaPool ==
    { Para(None, <<>>),
      Para(Some(<<" ", "\n">>), <<>>),
      Para(Some(<<"a", "\n", "\n", "b", " ", " ", " ", "c">>), <<>>),
      Para(Some(<<"a", " ">>),
           <<Elem(<<"emphasis">>, NoAttrib, Some(<<"b">>),
                  Some(<<" ", "\n", "c">>), <<>>)>>) }

RECURSIVE ParaSeqs(_)
ParaSeqs(k) ==
    IF k = 0 THEN {<<>>}
    ELSE {<<p>> \o ps : p \in ParaPool, ps \in ParaSeqs(k - 1)}

GlossDef(paras) == Elem(<<"glossdef">>, NoAttrib, None, None, paras)

\* the sequences of at most d <glossdef> holding at most p <para> in all
RECURSIVE DefSeqs(_, _)
DefSeqs(d, p) ==
    {<<>>} \cup
    (IF d = 0 THEN {}
     ELSE UNION {{<<GlossDef(ps)>> \o rest :
                     ps \in ParaSeqs(k), rest \in DefSeqs(d - 1, p - k)} :
                 k \in 0..p})

GlossTerm(text) == Elem(<<"glossterm">>, NoAttrib, text, None, <<>>)

GlossTermOptions ==
    { <<>>,                                     \* no headword element
      <<GlossTerm(None)>>,                      \* <glossterm/>
      <<GlossTerm(Some(<<" ", "f", "\n">>))>> } \* <glossterm> f\n</glossterm>

Emph(role, text) ==
    Elem(<<"emphasis">>, [id |-> None, role |-> role], text, None, <<>>)

AbbrevOptions ==
    { <<>>,
      <<Elem(<<"abbrev">>, NoAttrib, None, None,
             <<Emph(Some("pronunciation"), Some(<<" ", "p">>)),
               Emph(Some("grammar"), None)>>)>>,
      <<Elem(<<"abbrev">>, NoAttrib, None, None,
             <<Emph(Some("grammar"), Some(<<"n">>)), Emph(None, Some(<<"q">>))>>)>> }

IdOptions == {None, Some(<<"x">>)}

GlossEntry(id, children) ==
    Elem(<<"glossentry">>, [id |-> id, role |-> None], None, None, children)

----------------------------------------------------------------------------
(* Entry selection *)

\* random.choice(seq): any element, or IndexError on an empty sequence
random_choice(seq) ==
    IF seq = <<>> THEN {Raise("IndexError")}
    ELSE {Ok(seq[i]) : i \in 1..Len(seq)}

\* variant of ExactCandidates: compared as written, without lower()
ExactCandidates_caseSensitive(entries, term) ==
    SelectSeq(entries, LAMBDA e : e.term = term \/ e.id = term)

ExactCandidates(entries, term) ==
    LET query == Lower(term)
    IN SelectSeq(entries,
                 LAMBDA e : Lower(e.term) = query \/ Lower(e.id) = query)

PartialCandidates(entries, term) ==
    LET query == Lower(term)
    IN SelectSeq(entries,
                 LAMBDA e : \/ IsSubstring(query, Lower(e.term))
                            \/ IsSubstring(query, Lower(e.id)))

\* variant of Candidates: the substring tier is consulted first
Candidates_substringFirst(entries, term) ==
    IF PartialCandidates(entries, term) # <<>>
    THEN PartialCandidates(entries, term)
    ELSE ExactCandidates(entries, term)

\* the tier choose_entry draws from: exact matches if any, else substring matches
Candidates(entries, term) ==
    IF ExactCandidates(entries, term) # <<>>
    THEN ExactCandidates(entries, term)
    ELSE PartialCandidates(entries, term)

\* the possible outcomes of choose_entry(entries, term)
choose_entry(entries, term) ==
    IF ~Truthy(term) THEN random_choice(entries)
    ELSE IF Candidates(entries, Get(term)) # <<>>
         THEN random_choice(Candidates(entries, Get(term)))
         ELSE {[exc |-> "KeyError", value |-> Some(Get(term))]}

----------------------------------------------------------------------------
(* Inputs of entry selection *)

MaxRecords == 2

OneSense == <<[definition |-> <<"d">>, pronunciation |-> None, grammar |-> None]>>

RecordTerms == {<<"a">>, <<"A">>, <<"a", "b">>, <<"A", "B">>, <<"b", "A">>}
RecordIds == {<<>>, <<"a", "B">>, <<"c">>}

RecordPool == {[id |-> i, term |-> t, senses |-> OneSense] :
                  i \in RecordIds, t \in RecordTerms}

RECURSIVE SeqsUpTo(_, _)
SeqsUpTo(S, n) ==
    IF n = 0 THEN {<<>>}
    ELSE SeqsUpTo(S, n - 1) \cup
         {Append(q, x) : q \in {r \in SeqsUpTo(S, n - 1) : Len(r) = n - 1}, x \in S}

QueryPool == {None, Some(<<"a">>), Some(<<"A">>), Some(<<"a", "b">>),
              Some(<<"A", "b">>), Some(<<"B">>), Some(<<"C">>), Some(<<"c", "a">>)}

----------------------------------------------------------------------------
(* Extraction pipeline and cache materialization *)

\* The source document is held as the sequence of <glossentry> elements that
\* root.findall(".//glossentry") yields, in document order.  The artifact is
\* held as the list of entries json.load returns.

\* xml_to_json(xml_path, json_path): the exception raised ("none" if it
\* returns) and the artifact it leaves, given the two files before the call.
\* variant of xml_to_json: the output file is opened for writing before the
\* source is looked for
xml_to_json_writeFirst(xml, json) ==
    IF IsNone(xml) THEN [exc |-> "SourceNotFound", json |-> Some(<<>>)]
    ELSE LET parsed == [i \in 1..Len(Get(xml)) |-> parse_glossentry(Get(xml)[i])]
         IN IF \E i \in 1..Len(parsed) : parsed[i].exc # "none"
            THEN [exc |-> "AttributeError", json |-> json]
            ELSE [exc |-> "none",
                  json |-> Some([i \in 1..Len(parsed) |-> Get(parsed[i].value)])]

xml_to_json(xml, json) ==
    IF IsNone(xml) THEN [exc |-> "SourceNotFound", json |-> json]
    ELSE LET parsed == [i \in 1..Len(Get(xml)) |-> parse_glossentry(Get(xml)[i])]
         IN IF \E i \in 1..Len(parsed) : parsed[i].exc # "none"
            THEN [exc |-> "AttributeError", json |-> json]
            ELSE [exc |-> "none",
                  json |-> Some([i \in 1..Len(parsed) |-> Get(parsed[i].value)])]

\* variant of needs_regen: a missing artifact alone does not regenerate
needs_regen_forceOnly(force, json) == force

needs_regen(force, json) == force \/ IsNone(json)

\* ensure_json(json_path, xml_path, force): whether xml_to_json was called,
\* the exception raised ("none" if it returns) and the artifact it leaves.
\* variant of ensure_json: returns without regenerating or checking
ensure_json_unchecked(json, xml, force) ==
    [ran |-> FALSE, exc |-> "none", json |-> json]

ensure_json(json, xml, force) ==
    IF needs_regen(force, json)
    THEN LET r == xml_to_json(xml, json)
         IN IF r.exc # "none" THEN [ran |-> TRUE, exc |-> r.exc, json |-> r.json]
            ELSE IF IsNone(r.json)
                 THEN [ran |-> TRUE, exc |-> "CacheUnavailable", json |-> r.json]
                 ELSE [ran |-> TRUE, exc |-> "none", json |-> r.json]
    ELSE IF IsNone(json)
         THEN [ran |-> FALSE, exc |-> "CacheUnavailable", json |-> json]
         ELSE [ran |-> FALSE, exc |-> "none", json |-> json]

\* display_entry(entry, show_all): the exceptions it can end with
display_entry(entry, show_all) ==
    IF show_all THEN {"none"}
    ELSE {r.exc : r \in random_choice(entry.senses)}

\* show_entry(json_path, show_all, term): the possible outcomes, each with
\* whether the artifact was loaded and the entry choose_entry returned
show_entry(json, show_all, term) ==
    IF IsNone(json)
    THEN {[exc |-> "JsonNotFound", loaded |-> FALSE, chosen |-> None, query |-> None]}
    ELSE UNION {
           IF c.exc = "KeyError"
           THEN {[exc |-> "KeyError", loaded |-> TRUE, chosen |-> None, query |-> c.value]}
           ELSE IF c.exc # "none"
           THEN {[exc |-> c.exc, loaded |-> TRUE, chosen |-> None, query |-> None]}
           ELSE {[exc |-> d, loaded |-> TRUE, chosen |-> c.value, query |-> None] :
                    d \in display_entry(Get(c.value), show_all)}
           : c \in choose_entry(Get(json), term)}

----------------------------------------------------------------------------
(* Inputs of the command line program *)

MaxEntries == 2     \* <glossentry> elements of a source document

SimpleEntry(id, headword, defs) ==
    GlossEntry(Some(id), <<GlossTerm(headword)>> \o defs)

DocEntryPool ==
    { SimpleEntry(<<"a">>, Some(<<"a">>), <<GlossDef(<<Para(Some(<<"d">>), <<>>)>>)>>),
      SimpleEntry(<<"a", "b">>, Some(<<"A", "B">>), <<>>),  \* no <glossdef>
      SimpleEntry(<<"x">>, None, <<>>) }                    \* <glossterm/>

Documents == SeqsUpTo(DocEntryPool, MaxEntries)

\* the positional words of the command line
TermWords ==
    { <<>>,
      << <<"A">> >>,
      << <<"z">>, <<"a">> >>,
      << <<"b", "u", "i", "l", "d">> >> }

\* what parse_args returns: the flags, and term as the list of words
ParsedArgs ==
    [build : BOOLEAN, rebuild : BOOLEAN, show_all : BOOLEAN, term : TermWords]

BuildAliases ==
    { <<"b", "u", "i", "l", "d">>,
      <<"x", "m", "l", "-", "t", "o", "-", "j", "s", "o", "n">> }

\* main, after parse_args: the words are joined into one query (None when
\* empty), and a lone `build` or `xml-to-json` stands for --build
MainArgs(parsed) ==
    LET joined == Strip(Join(<<" ">>, parsed.term))
        term == IF joined # <<>> THEN Some(joined) ELSE None
        alias == ~IsNone(term) /\ Get(term) \in BuildAliases /\ ~parsed.build
    IN [build |-> parsed.build \/ alias,
        rebuild |-> parsed.rebuild,
        show_all |-> parsed.show_all,
        term |-> IF alias THEN None ELSE term]

NoArgs == [build |-> FALSE, rebuild |-> FALSE, show_all |-> FALSE, term |-> None]

----------------------------------------------------------------------------
(* The state machines *)

RenderUnused == rnode = None /\ rout = None
ParseUnused == gnode = None /\ gout = None
ChooseUnused == centries = <<>> /\ cterm = None /\ cout = None
CliUnused ==
    /\ xmlFile = None /\ jsonFile = None /\ pc = "idle" /\ args = NoArgs
    /\ status = "none" /\ jsonAtStart = None /\ extractRan = FALSE
    /\ loaded = FALSE /\ chosen = None /\ stderr = None

(* --- the renderer on one subtree *)

InitRender ==
    \* every subtree of at most MaxNodes elements; the root's own tail is
    \* its parent's business
    /\ \E n \in 1..MaxNodes : \E f \in Forests[n - 1] :
          \E tag \in InlineTags, text \in InlineTexts :
             rnode = Elem(tag, NoAttrib, text, None, f)
    /\ rout = None
    /\ ParseUnused /\ ChooseUnused /\ CliUnused

Render ==
    /\ IsNone(rout)
    /\ rout' = Some(render_element(rnode))
    /\ UNCHANGED <<rnode, parseVars, chooseVars, cliVars>>

NextRender == Render

SpecRender == InitRender /\ [][NextRender]_vars

(* --- the extractor on one <glossentry> *)

InitParse ==
    /\ \E id \in IdOptions, gt \in GlossTermOptions, ab \in AbbrevOptions :
          \E defs \in DefSeqs(MaxDefs, MaxParas) :
             gnode = GlossEntry(id, gt \o ab \o defs)
    /\ gout = None
    /\ RenderUnused /\ ChooseUnused /\ CliUnused

ParseGlossentry ==
    /\ IsNone(gout)
    /\ gout' = Some(parse_glossentry(gnode))
    /\ UNCHANGED <<gnode, renderVars, chooseVars, cliVars>>

NextParse == ParseGlossentry

SpecParse == InitParse /\ [][NextParse]_vars

(* --- entry selection on one record set and query *)

InitChoose ==
    /\ centries \in SeqsUpTo(RecordPool, MaxRecords)
    /\ cterm \in QueryPool
    /\ cout = None
    /\ RenderUnused /\ ParseUnused /\ CliUnused

ChooseEntry ==
    /\ IsNone(cout)
    /\ \E o \in choose_entry(centries, cterm) : cout' = Some(o)
    /\ UNCHANGED <<centries, cterm, renderVars, parseVars, cliVars>>

NextChoose == ChooseEntry

SpecChoose == InitChoose /\ [][NextChoose]_vars

(* --- the command line program, invocation after invocation *)

Init ==
    /\ RenderUnused /\ ParseUnused /\ ChooseUnused /\ CliUnused

\* Environment: the source document is written, replaced or removed between
\* invocations (or another path is given with --xml)
EditSource ==
    /\ pc = "idle"
    /\ \E x \in {None} \cup {Some(d) : d \in Documents} :
          x # xmlFile /\ xmlFile' = x
    /\ UNCHANGED <<renderVars, parseVars, chooseVars, jsonFile, pc, args,
                   status, jsonAtStart, extractRan, loaded, chosen, stderr>>

\* Environment: the disposable cache artifact is removed between invocations
\* (or a path not yet written is given with --json)
RemoveCache ==
    /\ pc = "idle"
    /\ ~IsNone(jsonFile)
    /\ jsonFile' = None
    /\ UNCHANGED <<renderVars, parseVars, chooseVars, xmlFile, pc, args,
                   status, jsonAtStart, extractRan, loaded, chosen, stderr>>

\* main(argv), from parse_args on: the term is joined, the build alias
\* resolved and the command chosen on args.build
Main ==
    /\ pc = "idle"
    /\ \E parsed \in ParsedArgs :
          /\ args' = MainArgs(parsed)
          /\ pc' = IF MainArgs(parsed).build THEN "build" ELSE "ensure"
    /\ status' = "running"
    /\ jsonAtStart' = jsonFile
    /\ UNCHANGED <<renderVars, parseVars, chooseVars, xmlFile, jsonFile,
                   extractRan, loaded, chosen, stderr>>

CmdBuild ==
    /\ pc = "build"
    /\ LET r == xml_to_json(xmlFile, jsonFile)
       IN /\ jsonFile' = r.json
          /\ status' = IF r.exc = "none" THEN "ok" ELSE r.exc
    /\ extractRan' = TRUE
    /\ pc' = "done"
    /\ UNCHANGED <<renderVars, parseVars, chooseVars, xmlFile, args,
                   jsonAtStart, loaded, chosen, stderr>>

\* cmd_random, first statement: ensure_json(args.json, args.xml, args.rebuild)
EnsureJson ==
    /\ pc = "ensure"
    /\ LET r == ensure_json(jsonFile, xmlFile, args.rebuild)
       IN /\ jsonFile' = r.json
          /\ extractRan' = r.ran
          /\ IF r.exc = "none"
             THEN pc' = "show" /\ status' = status
             ELSE pc' = "done" /\ status' = r.exc
    /\ UNCHANGED <<renderVars, parseVars, chooseVars, xmlFile, args,
                   jsonAtStart, loaded, chosen, stderr>>

\* cmd_random, the try block: show_entry, with KeyError reported and exit(1)
ShowEntry ==
    /\ pc = "show"
    /\ \E o \in show_entry(jsonFile, args.show_all, args.term) :
          /\ loaded' = o.loaded
          /\ chosen' = o.chosen
          /\ IF o.exc = "KeyError"
             THEN stderr' = o.query /\ status' = "exit1"
             ELSE /\ stderr' = stderr
                  /\ status' = IF o.exc = "none" THEN "ok" ELSE o.exc
    /\ pc' = "done"
    /\ UNCHANGED <<renderVars, parseVars, chooseVars, xmlFile, jsonFile, args,
                   jsonAtStart, extractRan>>

\* the process ends; the two files stay
Exit ==
    /\ pc = "done"
    /\ pc' = "idle" /\ args' = NoArgs /\ status' = "none"
    /\ jsonAtStart' = None /\ extractRan' = FALSE /\ loaded' = FALSE
    /\ chosen' = None /\ stderr' = None
    /\ UNCHANGED <<renderVars, parseVars, chooseVars, xmlFile, jsonFile>>

Next ==
    \/ EditSource
    \/ RemoveCache
    \/ Main
    \/ CmdBuild
    \/ EnsureJson
    \/ ShowEntry
    \/ Exit

Spec == Init /\ [][Next]_vars

----------------------------------------------------------------------------
(* Vocabulary of the properties *)

\* two characters that are the same letter, whatever their case
CasePairs == {<<"a", "A">>, <<"b", "B">>, <<"c", "C">>}

SameLetter(c, d) == c = d \/ <<c, d>> \in CasePairs \/ <<d, c>> \in CasePairs

EqualsIgnoringCase(s, t) ==
    Len(s) = Len(t) /\ \A i \in 1..Len(s) : SameLetter(s[i], t[i])

ContainsIgnoringCase(s, q) ==
    \E i \in 0..(Len(s) - Len(q)) :
        EqualsIgnoringCase(SubSeq(s, i + 1, i + Len(q)), q)

Letters == {"a", "A", "b", "B", "c", "C"}

\* the strings that differ from s only in letter case
CaseVariants(s) ==
    {t \in [1..Len(s) -> Letters] : EqualsIgnoringCase(s, t)}

ExactMatch(e, q) == EqualsIgnoringCase(e.term, q) \/ EqualsIgnoringCase(e.id, q)

SubstringMatch(e, q) ==
    ContainsIgnoringCase(e.term, q) \/ ContainsIgnoringCase(e.id, q)

StyleMarkers == {COLOR_EMPH[1], COLOR_REF[1], COLOR_TITLE[1], COLOR_RESET[1]}

StripMarkers(s) == SelectSeq(s, LAMBDA c : c \notin StyleMarkers)

OptText(o) == IF IsNone(o) THEN <<>> ELSE Get(o)

\* the text and tail fragments of a subtree, in document order
RECURSIVE AllText(_)
AllText(node) ==
    OptText(node.text) \o
    Concat([i \in 1..Len(node.children) |->
               AllText(node.children[i]) \o OptText(node.children[i].tail)])

----------------------------------------------------------------------------
(* Properties of the renderer *)

\* C7: what render_element returns, with the style markers it inserted
\* removed, is the node's text followed, child by child in document order, by
\* the child's rendered text and the child's tail; absent text and tails add
\* nothing.
RenderKeepsAllText ==
    ~IsNone(rout) => StripMarkers(Get(rout)) = AllText(rnode)

\* a rendered subtree with two children, the first a styled <emphasis> with
\* text and a tail, under a root without text
RenderKeepsAllTextWitness ==
    /\ ~IsNone(rout)
    /\ IsNone(rnode.text)
    /\ Len(rnode.children) = 2
    /\ rnode.children[1].tag = <<"emphasis">>
    /\ Truthy(rnode.children[1].text)
    /\ Truthy(rnode.children[1].tail)
    /\ IsNone(rnode.children[2].text)
    /\ Get(rout) # StripMarkers(Get(rout))

----------------------------------------------------------------------------
(* Properties of entry selection *)

\* C1: with a non-empty query that some entry's term or id equals, case
\* aside, choose_entry returns an entry whose term or id equals the query,
\* case aside, whichever element the random choice picks; an entry matching
\* by substring only is never returned.
ExactMatchWins ==
    (/\ ~IsNone(cout)
     /\ Truthy(cterm)
     /\ \E i \in 1..Len(centries) : ExactMatch(centries[i], Get(cterm)))
    => /\ Get(cout).exc = "none"
       /\ ExactMatch(Get(Get(cout).value), Get(cterm))

\* choose_entry has answered a query that one entry matches exactly and
\* another by substring only
ExactMatchWinsWitness ==
    /\ ~IsNone(cout)
    /\ Truthy(cterm)
    /\ \E i, j \in 1..Len(centries) :
          /\ ExactMatch(centries[i], Get(cterm))
          /\ ~ExactMatch(centries[j], Get(cterm))
          /\ SubstringMatch(centries[j], Get(cterm))
    /\ Get(cout).exc = "none"

\* C8: two queries that differ only in letter case give choose_entry the
\* same exact-match candidates and the same substring-match candidates, and
\* changing the case of an entry's term and id does not change whether the
\* entry is a candidate of either kind.
QueryMatchingIgnoresCase ==
    (~IsNone(cout) /\ Truthy(cterm)) =>
       LET q == Get(cterm)
       IN /\ \A q2 \in CaseVariants(q) :
                /\ ExactCandidates(centries, q2) = ExactCandidates(centries, q)
                /\ PartialCandidates(centries, q2) = PartialCandidates(centries, q)
                /\ Candidates(centries, q2) = Candidates(centries, q)
          /\ \A i \in 1..Len(centries) :
                \A t2 \in CaseVariants(centries[i].term),
                   i2 \in CaseVariants(centries[i].id) :
                   LET e == centries[i]
                       e2 == [e EXCEPT !.term = t2, !.id = i2]
                   IN /\ (ExactCandidates(<<e2>>, q) = <<>>)
                            <=> (ExactCandidates(<<e>>, q) = <<>>)
                      /\ (PartialCandidates(<<e2>>, q) = <<>>)
                            <=> (PartialCandidates(<<e>>, q) = <<>>)
          /\ Get(cout).exc = "none" =>
                \A q2 \in CaseVariants(q) :
                   Get(cout) \in choose_entry(centries, Some(q2))

\* choose_entry has answered a mixed-case query from an entry whose term is
\* written in the other case
QueryMatchingIgnoresCaseWitness ==
    /\ ~IsNone(cout)
    /\ cterm = Some(<<"A", "b">>)
    /\ Get(cout).exc = "none"
    /\ Get(Get(cout).value).term = <<"a", "b">>
    /\ \E i \in 1..Len(centries) : centries[i].id = <<"a", "B">>

----------------------------------------------------------------------------
(* Properties of the entry extractor *)

Parsed == ~IsNone(gout) /\ Get(gout).exc = "none"

ParsedEntry == Get(Get(gout).value)

\* the non-empty strings of a sequence, joined by single newlines
RECURSIVE JoinNonEmpty(_)
JoinNonEmpty(renders) ==
    IF renders = <<>> THEN <<>>
    ELSE IF Head(renders) = <<>> THEN JoinNonEmpty(Tail(renders))
    ELSE IF JoinNonEmpty(Tail(renders)) = <<>> THEN Head(renders)
    ELSE Head(renders) \o <<"\n">> \o JoinNonEmpty(Tail(renders))

ParagraphRenders(glossdef) ==
    LET paras == SelectSeq(glossdef.children, LAMBDA c : c.tag = <<"para">>)
    IN [i \in 1..Len(paras) |-> render_paragraph(paras[i])]

DefinitionGroups(glossentry) ==
    SelectSeq(glossentry.children, LAMBDA c : c.tag = <<"glossdef">>)

\* C9: an entry parse_glossentry returns has one Sense per <glossdef>
\* child, in document order; the definition of each is the newline-join of
\* that group's paragraph renders, the empty renders left out, and is the
\* empty string for a group with no paragraph or only empty renders.
OneSensePerDefinitionGroup ==
    Parsed =>
       LET groups == DefinitionGroups(gnode)
           senses == ParsedEntry.senses
       IN /\ Len(senses) = Len(groups)
          /\ \A i \in 1..Len(groups) :
                senses[i].definition = JoinNonEmpty(ParagraphRenders(groups[i]))

\* a parsed entry with two senses: the first from a group whose only
\* paragraph renders empty, the second joining two paragraphs with a newline
OneSensePerDefinitionGroupWitness ==
    /\ Parsed
    /\ Len(DefinitionGroups(gnode)) = 2
    /\ Len(DefinitionGroups(gnode)[1].children) = 1
    /\ Len(DefinitionGroups(gnode)[2].children) = 2
    /\ Len(ParsedEntry.senses) = 2
    /\ ParsedEntry.senses[1].definition = <<>>
    /\ \E i \in 1..Len(ParsedEntry.senses[2].definition) :
          ParsedEntry.senses[2].definition[i] = "\n"

\* C3: every entry parse_glossentry produces has at least one Sense, the
\* entries without a <glossdef> child included.
EveryEntryHasASense ==
    Parsed => Len(ParsedEntry.senses) >= 1

HeadwordText(glossentry) ==
    LET heads == SelectSeq(glossentry.children, LAMBDA c : c.tag = <<"glossterm">>)
    IN IF heads # <<>> /\ ~IsNone(heads[1].text) THEN Some(Get(heads[1].text))
       ELSE None

\* C4: parse_glossentry yields an Entry for every <glossentry>; its term is
\* the headword's trimmed text when the headword has text, and the entry's
\* identifier when the headword element is absent or has no text.
HeadwordFallsBackToId ==
    ~IsNone(gout) =>
       /\ Get(gout).exc = "none"
       /\ ParsedEntry.term =
             IF ~IsNone(HeadwordText(gnode)) THEN Strip(Get(HeadwordText(gnode)))
             ELSE OptText(gnode.attrib.id)

----------------------------------------------------------------------------
(* Properties of the command line program *)

\* ensure_json has run in the current invocation
EnsureDone == pc = "show" \/ (pc = "done" /\ ~args.build)

\* ensure_json has run and raised
EnsureFailed ==
    /\ pc = "done" /\ ~args.build
    /\ status \in {"SourceNotFound", "AttributeError", "CacheUnavailable"}

\* the entries of a source document, each extracted on its own
ExtractedEntries(doc) ==
    [i \in 1..Len(doc) |-> Get(parse_glossentry(doc[i]).value)]

\* a source that exists and whose every headword element has text
ValidSource(xml) ==
    /\ ~IsNone(xml)
    /\ \A i \in 1..Len(Get(xml)) :
          \A j \in 1..Len(Get(xml)[i].children) :
             Get(xml)[i].children[j].tag = <<"glossterm">>
                => ~IsNone(Get(xml)[i].children[j].text)

\* C5: ensure_json calls the extraction exactly when force is requested or
\* the artifact does not exist; an extraction that completes overwrites the
\* artifact with the entries of the source; without force and with the
\* artifact present nothing is extracted and the artifact stays as it was.
RegenerateOnlyWhenForcedOrMissing ==
    EnsureDone =>
       /\ extractRan <=> (args.rebuild \/ IsNone(jsonAtStart))
       /\ ~extractRan => jsonFile = jsonAtStart
       /\ (extractRan /\ ~EnsureFailed)
             => jsonFile = Some(ExtractedEntries(Get(xmlFile)))

\* a forced rebuild has replaced an existing artifact by different entries
RegenerateOnlyWhenForcedOrMissingWitness ==
    /\ pc = "show"
    /\ args.rebuild
    /\ extractRan
    /\ ~IsNone(jsonAtStart)
    /\ jsonFile # jsonAtStart

MissingSourceLeavesArtifact ==
    /\ status = "SourceNotFound"
          => /\ IsNone(xmlFile)
             /\ extractRan
             /\ jsonFile = jsonAtStart
             /\ ~loaded
             /\ IsNone(chosen)
    /\ (pc \in {"show", "done"} /\ extractRan /\ IsNone(xmlFile))
          => (pc = "done" /\ status = "SourceNotFound")
    /\ (EnsureDone /\ args.rebuild /\ IsNone(xmlFile))
          => (pc = "done" /\ status = "SourceNotFound")

\* a forced rebuild has ended in SourceNotFound with a non-empty artifact
\* still in place
MissingSourceLeavesArtifactWitness ==
    /\ pc = "done"
    /\ ~args.build /\ args.rebuild
    /\ status = "SourceNotFound"
    /\ ~IsNone(jsonFile)
    /\ Get(jsonFile) # <<>>
    /\ jsonFile = jsonAtStart

\* C2: a lookup with a non-empty query ends with the query reported on
\* stderr and exit status 1 exactly when no entry's term or id contains the
\* query, case aside; every other lookup returns an entry and exits normally.
LookupFailsOnlyWhenNothingMatches ==
    (pc = "done" /\ loaded /\ Truthy(args.term)) =>
       IF \E i \in 1..Len(Get(jsonFile)) :
             SubstringMatch(Get(jsonFile)[i], Get(args.term))
       THEN status = "ok" /\ ~IsNone(chosen) /\ IsNone(stderr)
       ELSE status = "exit1" /\ IsNone(chosen) /\ stderr = args.term

====
